---- MODULE Spec2Model ----
(***************************************************************************)
(* A state-machine model of pycloudlib's cloud adapters (EC2, OCI), their  *)
(* image resolution, the snapshot sequence, and the LXD instance polling   *)
(* routines exercised by lxd/tests/test_instance.py.                       *)
(*                                                                         *)
(* The specifications share the variables below; each one drives one       *)
(* group of operations and leaves the other groups at their initial value: *)
(*   Spec          launch (EC2.launch, OCI.launch)                         *)
(*   SpecSnapshot  snapshot (EC2.snapshot, OCI.snapshot)                   *)
(*   SpecImage     released_image / daily_image                            *)
(*   SpecLXD       LXDInstance.ip, wait_for_stop and shutdown              *)
(*   SpecConfig    construction of a session (__init__)                    *)
(*   SpecSession   construction followed by any sequence of operations     *)
(*   SpecVpc       EC2.get_or_create_vpc                                   *)
(***************************************************************************)
EXTENDS Integers, Sequences, FiniteSets, TLC

VARIABLES
    cloud,        \* the adapter of the session: "ec2" or "oci" (_type)
    tag,          \* self.tag, the session's resource tag
    key_name,     \* self.key_pair.name
    key_path,     \* self.key_pair.public_key_path
    config_file,  \* the section of the configuration file named by _type
    config,       \* self.config
    session,      \* constructor arguments and the values the session uses
    pc,           \* position of the running operation
    frame,        \* arguments and locals of the running operation
    calls,        \* provider SDK calls issued by the running operation, in order
    polls,        \* state polls issued by the waits of the running operation
    sleeps,       \* delays taken by the waits of the running operation
    attempts,     \* polls of the wait in progress
    observed,     \* last instance state a poll returned
    inst,         \* provider-side state of the instance the operation works on
    image,        \* provider-side state of the image a snapshot creates
    result,       \* what the operation returned or raised
    catalog,      \* the provider's image records, in the catalog's own order
    vpcs,         \* the provider's VPCs, in the order describe_vpcs lists them
    lxd           \* LXDInstance under test together with its mocks

sessVars == <<cloud, tag, key_name, key_path, config_file, config, session>>
opVars   == <<pc, frame, calls, polls, sleeps, attempts, observed, inst, image, result>>
vars     == <<cloud, tag, key_name, key_path, config_file, config, session, pc, frame, calls, polls, sleeps, attempts,
              observed, inst, image, result, catalog, vpcs, lxd>>

----------------------------------------------------------------------------
(* Values *)

\* Python's None
None == "None_"

\* Python truthiness of an optional string
Truthy(v) == v # None /\ v # ""

\* number of state polls a wait performs before it gives up
WaitBudget == 3

Clouds == {"ec2", "oci"}
Tags == {"tag-a", "tag-b"}

NoResult == [status |-> "none", exc |-> None, msg |-> None, value |-> None]
Returned(v) == [status |-> "returned", exc |-> None, msg |-> None, value |-> v]
Raised(e, m) == [status |-> "raised", exc |-> e, msg |-> m, value |-> None]

\* The error kinds of the documented taxonomy, for the exceptions the code raises
ErrorKind(r) ==
    IF r.status # "raised" THEN None
    ELSE IF r.exc = "ValueError" THEN "InvalidArgument"
    ELSE IF r.exc = "Exception" /\ r.msg = "Could not find image" THEN "ImageNotFoundError"
    ELSE IF r.exc = "RuntimeError" /\ r.msg = "Too many subnets" THEN "UnsupportedTopologyError"
    ELSE IF r.exc = "TimeoutError" THEN "TimeoutError"
    ELSE IF r.exc = "Exception" /\ r.msg = "Unable to retrieve instance" THEN "NotFoundError"
    ELSE r.exc

EmptyDict == [k \in {} |-> None]

NoFrame == [op |-> None, image_id |-> None, instance_type |-> None,
            user_data |-> None, wait |-> FALSE, vpc |-> None,
            kwargs |-> EmptyDict, args |-> EmptyDict, clean |-> FALSE,
            release |-> None, image_type |-> None, daily |-> FALSE,
            operating_system |-> None, response |-> <<>>, id |-> None]

----------------------------------------------------------------------------
(* Provider fixtures: what the SDK returns for the objects a caller passes *)

InstanceTypes == {"t3.micro"}
ImageIds == {None, "", "ami-a"}
UserDatas == {None, "#cloud-config"}

\* vpc.vpc.subnets.all() of the VPC objects a caller may pass
Subnets(vpc) ==
    CASE vpc = "vpc-0" -> <<>>
      [] vpc = "vpc-1" -> <<"subnet-1">>
      [] vpc = "vpc-2" -> <<"subnet-1", "subnet-2">>

\* vpc.vpc.security_groups.all()
SecurityGroups(vpc) == <<"sg-1", "sg-2">>

Vpcs == {"vpc-0", "vpc-1", "vpc-2"}

NameTag(value) ==
    <<[ResourceType |-> "instance", Tags |-> <<[Key |-> "Name", Value |-> value]>>]>>

\* **kwargs a caller may pass to EC2.launch
EC2Kwargs ==
    { EmptyDict,
      [ImageId |-> "ami-kw"],
      [SubnetId |-> "subnet-kw"],
      [TagSpecifications |-> NameTag("custom")],
      [Placement |-> "az-1"] }

\* **kwargs a caller may pass to OCI.launch
OCIKwargs ==
    { EmptyDict,
      [display_name |-> "custom"],
      [freeform_tags |-> "mine"] }

Call(name, args) == [name |-> name, args |-> args]

----------------------------------------------------------------------------
(* LXDInstance together with the mocks of its tests *)

\* retries of LXDInstance.ip
RETRIES == 150

\* pycloudlib.result.Result of one `lxc list` run
LxcResult(stdout, stderr, return_code) ==
    [stdout |-> stdout, stderr |-> stderr, return_code |-> return_code]

NoLxcResult == LxcResult(None, None, 0)

\* what `lxc list ^name$ -c4 --format csv` may give
LxcOutputs ==
    { LxcResult("unparseable", "", 0),
      LxcResult("10.0.0.1 (eth0)", "", 1),
      LxcResult("", "", 0),
      LxcResult("10.69.10.5 (eth0)\n", "", 0) }

NewLXD(ephemeral, state) ==
    [op |-> None, status |-> "idle", ephemeral |-> ephemeral, state |-> state,
     retries |-> 0, subp_calls |-> 0, sleep_calls |-> 0, wait_for_state_calls |-> 0,
     last |-> NoLxcResult, value |-> None, exc |-> None, raw |-> NoLxcResult,
     wait |-> FALSE, force |-> FALSE, cmds |-> <<>>, wait_for_stop_calls |-> 0,
     shutdown_calls |-> 0]

NoLXD == NewLXD(FALSE, "RUNNING")

----------------------------------------------------------------------------
(* construction: BaseCloud.__init__, EC2.__init__, OCI.__init__ *)

\* dict.get(key, default)
Get(d, key, default) == IF key \in DOMAIN d THEN d[key] ELSE default

\* the provider values a constructor takes as keyword arguments
ProviderKeys(c) ==
    CASE c = "ec2" -> {"access_key_id", "secret_access_key", "region"}
      [] c = "oci" -> {"availability_domain", "compartment_id", "config_path"}
      [] OTHER -> {}

\* what a caller may pass for one keyword argument
ArgValues == {None, "", "arg"}

\* the keyword arguments of one constructor call
CtorArgs(c) == [ProviderKeys(c) -> ArgValues]

\* config_dict of OCI.__init__
ConfigDicts == {None, "config-dict"}

\* keys a section of the configuration file may hold
FileKeys(c) == ProviderKeys(c) \cup {"key_name"}

\* the sections a configuration file may hold for the adapter
ConfigFiles(c) ==
    UNION { [keys -> {"file"}] : keys \in SUBSET FileKeys(c) }

\* the clock get_timestamped_tag reads
Clock == {"1102-1200", "1102-1201"}

\* get_timestamped_tag(tag)
TimestampedTag(t, now) == t \o "-" \o now

\* validate_tag(tag) of a well-formed tag
ValidateTag(t) == t

\* required_values as each constructor hands them to BaseCloud.__init__; an
\* adapter that passes none leaves the default, which is as false as <<>>
RequiredValues(c, args) ==
    CASE c = "ec2" -> <<args.access_key_id, args.secret_access_key, args.region>>
      [] c = "oci" -> <<args.availability_domain, args.compartment_id>>
      [] OTHER -> <<>>

\* the test of check_and_set_config with `required_values` alone
ConfigNotNeededAnyGiven(required_values) ==
    /\ Len(required_values) > 0
    /\ \E i \in 1..Len(required_values) : required_values[i] # None

\* `if required_values and all(v is not None for v in required_values)`
ConfigNotNeeded(required_values) ==
    /\ Len(required_values) > 0
    /\ \A i \in 1..Len(required_values) : required_values[i] # None

\* check_and_set_config: self.config, and whether parse_config was called
CheckAndSetConfig(required_values, section) ==
    IF ConfigNotNeeded(required_values)
    THEN [config |-> EmptyDict, parsed |-> 0]
    ELSE [config |-> section, parsed |-> 1]

\* `file or argument`, the file value shadowing the argument
FileFirst(arg, conf, key) == IF key \in DOMAIN conf THEN conf[key] ELSE arg

\* `argument or self.config.get(key)`
ArgOrConfig(arg, conf, key) == IF Truthy(arg) THEN arg ELSE Get(conf, key, None)

NewSession ==
    [status |-> "new", args |-> EmptyDict, config_dict |-> None,
     tag_arg |-> None, timestamp_suffix |-> FALSE, parsed |-> 0,
     used |-> EmptyDict, exc |-> None]

\* the assignments of BaseCloud.__init__
BaseInit(tag_arg, timestamp_suffix, now, required_values) ==
    LET c == CheckAndSetConfig(required_values, config_file)
    IN  /\ config' = c.config
        /\ key_path' = Get(c.config, "public_key_path", "~user/.ssh/id_rsa.pub")
        /\ key_name' = Get(c.config, "key_name", "user")
        /\ tag' = IF timestamp_suffix
                  THEN ValidateTag(TimestampedTag(tag_arg, now))
                  ELSE ValidateTag(tag_arg)

\* the record of a constructor call that used `used` or ended with `exc`
Constructed(tag_arg, timestamp_suffix, args, config_dict, parsed, used, exc) ==
    [status |-> IF exc = None THEN "constructed" ELSE "failed",
     args |-> args, config_dict |-> config_dict, tag_arg |-> tag_arg,
     timestamp_suffix |-> timestamp_suffix, parsed |-> parsed,
     used |-> used, exc |-> exc]

\* EC2(tag, timestamp_suffix, config_file, access_key_id=, secret_access_key=,
\* region=); `ambient` is whether boto3 finds a region and credentials of its own
EC2Init(tag_arg, timestamp_suffix, now, args, ambient) ==
    /\ cloud = "ec2"
    /\ session.status = "new"
    /\ BaseInit(tag_arg, timestamp_suffix, now, RequiredValues("ec2", args))
    /\ LET used == [k \in ProviderKeys("ec2") |-> ArgOrConfig(args[k], config', k)]
           complete == \A k \in ProviderKeys("ec2") : used[k] # None
       IN  session' = Constructed(tag_arg, timestamp_suffix, args, None,
                                  CheckAndSetConfig(RequiredValues("ec2", args),
                                                    config_file).parsed,
                                  used,
                                  IF complete \/ ambient THEN None ELSE "RuntimeError")
    /\ UNCHANGED <<cloud, config_file, opVars, catalog, vpcs, lxd>>

\* OCI(tag, timestamp_suffix, config_file, availability_domain=,
\* compartment_id=, config_path=, config_dict=); `cli` is what
\* `oci iam compartment get` gives, None when it fails
OCIInit(tag_arg, timestamp_suffix, now, args, config_dict, cli) ==
    /\ cloud = "oci"
    /\ session.status = "new"
    /\ BaseInit(tag_arg, timestamp_suffix, now, RequiredValues("oci", args))
    /\ LET parsed == CheckAndSetConfig(RequiredValues("oci", args), config_file).parsed
           ad_missing == /\ ~Truthy(args.availability_domain)
                         /\ "availability_domain" \notin DOMAIN config'
           ad == ArgOrConfig(args.availability_domain, config', "availability_domain")
           given == ArgOrConfig(args.compartment_id, config', "compartment_id")
           compartment == IF Truthy(given) THEN given ELSE cli
           path == IF Truthy(config_dict) THEN None
                   ELSE IF Truthy(ArgOrConfig(args.config_path, config', "config_path"))
                        THEN ArgOrConfig(args.config_path, config', "config_path")
                        ELSE "~/.oci/config"
           done(used, exc) == Constructed(tag_arg, timestamp_suffix, args,
                                          config_dict, parsed, used, exc)
       IN  session' =
             IF ad_missing
             THEN done(EmptyDict, "KeyError")
             ELSE IF compartment = None
             THEN done([availability_domain |-> ad], "Exception")
             ELSE done([availability_domain |-> ad, compartment_id |-> compartment,
                        config_path |-> path], None)
    /\ UNCHANGED <<cloud, config_file, opVars, catalog, vpcs, lxd>>

\* an adapter that hands no required_values to BaseCloud.__init__
BaseCloudInit(tag_arg, timestamp_suffix, now) ==
    /\ cloud = "base"
    /\ session.status = "new"
    /\ BaseInit(tag_arg, timestamp_suffix, now, RequiredValues("base", EmptyDict))
    /\ session' = Constructed(tag_arg, timestamp_suffix, EmptyDict, None,
                              CheckAndSetConfig(RequiredValues("base", EmptyDict),
                                                config_file).parsed,
                              EmptyDict, None)
    /\ UNCHANGED <<cloud, config_file, opVars, catalog, vpcs, lxd>>

\* operations are methods of a session whose constructor has returned
SessionReady == session.status = "constructed"

\* a session constructed with every provider value given as an argument
GivenSession(c, t) ==
    Constructed(t, FALSE, [k \in ProviderKeys(c) |-> "arg"], None, 0,
                [k \in ProviderKeys(c) |-> "arg"], None)

----------------------------------------------------------------------------
(* launch *)

\* `if not image_id:` with the image_id "" mistaken for a usable one
LaunchRequiresImageIdNoneOnly(image_id) == image_id = None

\* `if not image_id: raise ValueError(...)`
LaunchRequiresImageId(image_id) == ~Truthy(image_id)

\* `if wait:` dropped, launch returning without the wait
AfterCreateNoWait(wait) == "done"

\* `if wait: instance.wait()` / `return instance`
AfterCreate(wait) == IF wait THEN "wait" ELSE "done"

\* args of EC2.launch with the Name tag taken from the key pair's name
EC2LaunchArgsKeyNameTag(image_id, instance_type, user_data, kwargs) ==
    LET base == [ImageId |-> image_id,
                 InstanceType |-> instance_type,
                 KeyName |-> key_name,
                 MaxCount |-> 1,
                 MinCount |-> 1,
                 TagSpecifications |-> NameTag(key_name)]
        withUserData == IF Truthy(user_data)
                        THEN [UserData |-> user_data] @@ base
                        ELSE base
    IN  kwargs @@ withUserData

\* args of EC2.launch before the vpc branch: the dict literal, UserData, kwargs
EC2LaunchArgs(image_id, instance_type, user_data, kwargs) ==
    LET base == [ImageId |-> image_id,
                 InstanceType |-> instance_type,
                 KeyName |-> key_name,
                 MaxCount |-> 1,
                 MinCount |-> 1,
                 TagSpecifications |-> NameTag(tag)]
        withUserData == IF Truthy(user_data)
                        THEN [UserData |-> user_data] @@ base
                        ELSE base
    IN  kwargs @@ withUserData

NewFrame(op, image_id, instance_type, user_data, wait, vpc, kwargs) ==
    [NoFrame EXCEPT !.op = op, !.image_id = image_id,
                    !.instance_type = instance_type, !.user_data = user_data,
                    !.wait = wait, !.vpc = vpc, !.kwargs = kwargs]

\* EC2.launch up to its first provider call
EC2Launch(image_id, instance_type, user_data, wait, vpc, kwargs) ==
    /\ cloud = "ec2"
    /\ SessionReady
    /\ pc = "idle"
    /\ LET f == NewFrame("launch", image_id, instance_type, user_data, wait, vpc, kwargs)
       IN  IF LaunchRequiresImageId(image_id)
           THEN /\ frame' = f
                /\ result' = Raised("ValueError", "launch requires image_id")
                /\ pc' = "done"
           ELSE /\ frame' = [f EXCEPT !.args =
                                EC2LaunchArgs(image_id, instance_type, user_data, kwargs)]
                /\ result' = NoResult
                /\ pc' = IF vpc # None THEN "ec2_vpc" ELSE "ec2_create"
    /\ UNCHANGED <<calls, polls, sleeps, attempts, observed, inst, image>>
    /\ UNCHANGED <<sessVars, catalog, vpcs, lxd>>

\* the `if vpc:` branch of EC2.launch
EC2LaunchVpc ==
    /\ pc = "ec2_vpc"
    /\ LET subnets == Subnets(frame.vpc)
       IN  IF Len(subnets) # 1
           THEN /\ calls' = Append(calls, Call("subnets.all", EmptyDict))
                /\ result' = Raised("RuntimeError", "Too many subnets")
                /\ pc' = "done"
                /\ frame' = frame
           ELSE /\ calls' = calls \o <<Call("subnets.all", EmptyDict),
                                       Call("security_groups.all", EmptyDict)>>
                /\ frame' = [frame EXCEPT !.args =
                                [SubnetId |-> subnets[1],
                                 SecurityGroupIds |-> SecurityGroups(frame.vpc)] @@ @]
                /\ result' = result
                /\ pc' = "ec2_create"
    /\ UNCHANGED <<polls, sleeps, attempts, observed, inst, image>>
    /\ UNCHANGED <<sessVars, catalog, vpcs, lxd>>

\* self.resource.create_instances(**args) and what follows it
EC2LaunchCreate ==
    /\ pc = "ec2_create"
    /\ calls' = Append(calls, Call("create_instances", frame.args))
    /\ \/ /\ inst' = "pending"
          /\ pc' = AfterCreate(frame.wait)
          /\ result' = IF pc' = "done" THEN Returned("instance") ELSE result
       \/ /\ inst' = inst
          /\ pc' = "done"
          /\ result' = Raised("ClientError", "create_instances")
    /\ UNCHANGED <<frame, polls, sleeps, attempts, observed, image>>
    /\ UNCHANGED <<sessVars, catalog, vpcs, lxd>>

\* keyword arguments OCI.launch itself passes to LaunchInstanceDetails
OCIDetailKeys ==
    {"display_name", "availability_domain", "compartment_id", "shape",
     "subnet_id", "image_id", "metadata"}

\* metadata of OCI.launch
OCIMetadata(user_data) ==
    IF Truthy(user_data)
    THEN [ssh_authorized_keys |-> key_name, user_data |-> <<"b64", user_data>>]
    ELSE [ssh_authorized_keys |-> key_name]

\* OCI.launch up to its first provider call
OCILaunch(image_id, instance_type, user_data, wait, kwargs) ==
    /\ cloud = "oci"
    /\ SessionReady
    /\ pc = "idle"
    /\ frame' = NewFrame("launch", image_id, instance_type, user_data, wait, None, kwargs)
    /\ IF LaunchRequiresImageId(image_id)
       THEN /\ result' = Raised("ValueError", "launch requires image_id")
            /\ pc' = "done"
       ELSE /\ result' = NoResult
            /\ pc' = "oci_details"
    /\ UNCHANGED <<calls, polls, sleeps, attempts, observed, inst, image>>
    /\ UNCHANGED <<sessVars, catalog, vpcs, lxd>>

\* get_subnet_id(...) and LaunchInstanceDetails(..., **kwargs)
OCILaunchDetails ==
    /\ pc = "oci_details"
    /\ calls' = Append(calls, Call("list_subnets", EmptyDict))
    /\ IF DOMAIN frame.kwargs \cap OCIDetailKeys # {}
       THEN /\ result' = Raised("TypeError", "multiple values for keyword argument")
            /\ pc' = "done"
            /\ frame' = frame
       ELSE /\ frame' = [frame EXCEPT !.args =
                            frame.kwargs @@
                            [display_name |-> tag,
                             availability_domain |-> "ad-1",
                             compartment_id |-> "compartment-1",
                             shape |-> frame.instance_type,
                             subnet_id |-> "subnet-1",
                             image_id |-> frame.image_id,
                             metadata |-> OCIMetadata(frame.user_data)]]
            /\ result' = result
            /\ pc' = "oci_create"
    /\ UNCHANGED <<polls, sleeps, attempts, observed, inst, image>>
    /\ UNCHANGED <<sessVars, catalog, vpcs, lxd>>

\* self.compute_client.launch_instance(instance_details)
OCILaunchCreate ==
    /\ pc = "oci_create"
    /\ calls' = Append(calls, Call("launch_instance", frame.args))
    /\ \/ /\ inst' = "pending"
          /\ pc' = "oci_get"
          /\ result' = result
       \/ /\ inst' = inst
          /\ pc' = "done"
          /\ result' = Raised("ServiceError", "launch_instance")
    /\ UNCHANGED <<frame, polls, sleeps, attempts, observed, image>>
    /\ UNCHANGED <<sessVars, catalog, vpcs, lxd>>

\* instance = self.get_instance(instance_data.id), then `if wait:`
OCILaunchGetInstance ==
    /\ pc = "oci_get"
    /\ calls' = Append(calls, Call("get_instance", EmptyDict))
    /\ pc' = IF AfterCreate(frame.wait) = "wait" THEN "oci_ready" ELSE "done"
    /\ result' = IF pc' = "done" THEN Returned("instance") ELSE result
    /\ UNCHANGED <<frame, polls, sleeps, attempts, observed, inst, image>>
    /\ UNCHANGED <<sessVars, catalog, vpcs, lxd>>

\* one round of the wait `stage` for `current` to become `desired`: poll,
\* then either finish, give up with `exc`, or sleep
WaitPoll(stage, current, desired, next, done_result, exc) ==
    /\ polls' = polls + 1
    /\ observed' = current
    /\ IF current = desired
       THEN /\ pc' = next
            /\ attempts' = 0
            /\ sleeps' = sleeps
            /\ result' = IF next = "done" THEN done_result ELSE result
       ELSE /\ sleeps' = sleeps + 1
            /\ attempts' = attempts + 1
            /\ IF attempts + 1 = WaitBudget
               THEN /\ pc' = "done"
                    /\ result' = [Raised(exc, stage) EXCEPT !.value = current]
               ELSE /\ pc' = pc
                    /\ result' = result

\* wait_till_ready(func=get_instance, desired_state="RUNNING") in OCI.launch
OCIWaitTillReady ==
    /\ pc = "oci_ready"
    /\ WaitPoll("wait_till_ready", inst, "running", "wait", result, "TimeoutError")
    /\ UNCHANGED <<frame, calls, inst, image>>
    /\ UNCHANGED <<sessVars, catalog, vpcs, lxd>>

\* instance.wait() in EC2.launch and OCI.launch
InstanceWait ==
    /\ pc = "wait"
    /\ WaitPoll("wait", inst, "running", "done", Returned("instance"), "TimeoutError")
    /\ UNCHANGED <<frame, calls, inst, image>>
    /\ UNCHANGED <<sessVars, catalog, vpcs, lxd>>

\* the provider brings a pending instance up
ProviderBoot ==
    /\ inst = "pending"
    /\ inst' = "running"
    /\ UNCHANGED <<pc, frame, calls, polls, sleeps, attempts, observed, image, result>>
    /\ UNCHANGED <<sessVars, catalog, vpcs, lxd>>

\* the caller takes the result; the session is ready for the next operation
Return ==
    /\ pc = "done"
    /\ pc' = "idle"
    /\ frame' = NoFrame
    /\ calls' = <<>>
    /\ polls' = 0
    /\ sleeps' = 0
    /\ attempts' = 0
    /\ observed' = "none"
    /\ inst' = "none"
    /\ image' = "none"
    /\ result' = NoResult
    /\ UNCHANGED <<sessVars, catalog, vpcs, lxd>>

NoCatalog == <<>>

NoVpcs == <<>>

InitOp ==
    /\ pc = "idle"
    /\ frame = NoFrame
    /\ calls = <<>>
    /\ polls = 0
    /\ sleeps = 0
    /\ attempts = 0
    /\ observed = "none"
    /\ inst = "none"
    /\ image = "none"
    /\ result = NoResult

\* what construction leaves besides the tag when every provider value was
\* given as an argument
InitKeyAndConfig ==
    /\ key_name = "user"
    /\ key_path = "~user/.ssh/id_rsa.pub"
    /\ config_file = EmptyDict
    /\ config = EmptyDict
    /\ session = GivenSession(cloud, tag)

InitSession ==
    /\ cloud \in Clouds
    /\ tag \in Tags
    /\ InitKeyAndConfig

Init ==
    /\ InitSession
    /\ InitOp
    /\ catalog = NoCatalog
    /\ vpcs = NoVpcs
    /\ lxd = NoLXD

Next ==
    \/ \E image_id \in ImageIds, instance_type \in InstanceTypes,
          user_data \in UserDatas, wait \in BOOLEAN,
          vpc \in Vpcs \cup {None}, kwargs \in EC2Kwargs :
            EC2Launch(image_id, instance_type, user_data, wait, vpc, kwargs)
    \/ EC2LaunchVpc
    \/ EC2LaunchCreate
    \/ \E image_id \in ImageIds, instance_type \in InstanceTypes,
          user_data \in UserDatas, wait \in BOOLEAN, kwargs \in OCIKwargs :
            OCILaunch(image_id, instance_type, user_data, wait, kwargs)
    \/ OCILaunchDetails
    \/ OCILaunchCreate
    \/ OCILaunchGetInstance
    \/ OCIWaitTillReady
    \/ InstanceWait
    \/ ProviderBoot
    \/ Return

Spec == Init /\ [][Next]_vars

----------------------------------------------------------------------------
(* snapshot *)

\* a step of snapshot as the log keeps it: its name and the provider-side
\* states of the instance and of the image when it was issued
Step(name) == Call(name, [inst |-> inst, image |-> image])

SnapshotFrame(clean) == [NoFrame EXCEPT !.op = "snapshot", !.clean = clean]

\* `if clean: instance.clean()` of EC2.snapshot and OCI.snapshot
SnapshotClean(clean, next) ==
    /\ SessionReady
    /\ pc = "idle"
    /\ inst = "running"
    /\ frame' = SnapshotFrame(clean)
    /\ IF clean
       THEN /\ calls' = Append(calls, Step("clean"))
            /\ \/ /\ pc' = next
                  /\ result' = NoResult
               \/ /\ pc' = "done"
                  /\ result' = Raised("Exception", "clean")
       ELSE /\ calls' = calls
            /\ pc' = next
            /\ result' = NoResult
    /\ UNCHANGED <<polls, sleeps, attempts, observed, inst, image>>
    /\ UNCHANGED <<sessVars, catalog, vpcs, lxd>>

\* EC2.snapshot up to instance.shutdown
EC2Snapshot(clean) ==
    /\ cloud = "ec2"
    /\ SnapshotClean(clean, "snap_shutdown")

\* instance.shutdown(wait=True): the stop request
EC2SnapshotShutdown ==
    /\ pc = "snap_shutdown"
    /\ calls' = Append(calls, Step("shutdown"))
    /\ inst' = "stopping"
    /\ pc' = "snap_wait_stop"
    /\ UNCHANGED <<frame, polls, sleeps, attempts, observed, image, result>>
    /\ UNCHANGED <<sessVars, catalog, vpcs, lxd>>

\* instance.shutdown(wait=True): the wait for the stopped state
EC2SnapshotWaitStop ==
    /\ pc = "snap_wait_stop"
    /\ WaitPoll("wait_for_stop", inst, "stopped", "snap_create", result, "TimeoutError")
    /\ UNCHANGED <<frame, calls, inst, image>>
    /\ UNCHANGED <<sessVars, catalog, vpcs, lxd>>

\* self.client.create_image(Name=..., InstanceId=instance.id)
EC2SnapshotCreateImage ==
    /\ pc = "snap_create"
    /\ calls' = Append(calls, Step("create_image"))
    /\ \/ /\ image' = "pending"
          /\ pc' = "snap_wait_image"
          /\ result' = result
       \/ /\ image' = image
          /\ pc' = "done"
          /\ result' = Raised("ClientError", "create_image")
    /\ UNCHANGED <<frame, polls, sleeps, attempts, observed, inst>>
    /\ UNCHANGED <<sessVars, catalog, vpcs, lxd>>

\* self._wait_for_snapshot(image)
EC2WaitForSnapshot ==
    /\ pc = "snap_wait_image"
    /\ WaitPoll("image_available", image, "available", "snap_tag", result, "WaiterError")
    /\ UNCHANGED <<frame, calls, inst, image>>
    /\ UNCHANGED <<sessVars, catalog, vpcs, lxd>>

\* _tag_resource(image, self.tag) left out
EC2SnapshotTagSkipped ==
    /\ pc = "snap_tag"
    /\ pc' = "snap_start"
    /\ UNCHANGED <<frame, calls, polls, sleeps, attempts, observed, inst, image, result>>
    /\ UNCHANGED <<sessVars, catalog, vpcs, lxd>>

\* _tag_resource(image, self.tag)
EC2SnapshotTag ==
    /\ pc = "snap_tag"
    /\ calls' = Append(calls, Step("create_tags"))
    /\ \/ /\ pc' = "snap_start"
          /\ result' = result
       \/ /\ pc' = "done"
          /\ result' = Raised("ClientError", "create_tags")
    /\ UNCHANGED <<frame, polls, sleeps, attempts, observed, inst, image>>
    /\ UNCHANGED <<sessVars, catalog, vpcs, lxd>>

\* instance.start(wait=True) left out, snapshot returning the image id at once
EC2SnapshotStartSkipped ==
    /\ pc = "snap_start"
    /\ pc' = "done"
    /\ result' = Returned("image")
    /\ UNCHANGED <<frame, calls, polls, sleeps, attempts, observed, inst, image>>
    /\ UNCHANGED <<sessVars, catalog, vpcs, lxd>>

\* instance.start(wait=True): the start request
EC2SnapshotStart ==
    /\ pc = "snap_start"
    /\ calls' = Append(calls, Step("start"))
    /\ inst' = "pending"
    /\ pc' = "snap_wait_start"
    /\ UNCHANGED <<frame, polls, sleeps, attempts, observed, image, result>>
    /\ UNCHANGED <<sessVars, catalog, vpcs, lxd>>

\* instance.start(wait=True): the wait for the running state; `return image.id`
EC2SnapshotWaitStart ==
    /\ pc = "snap_wait_start"
    /\ WaitPoll("wait_for_start", inst, "running", "done", Returned("image"), "TimeoutError")
    /\ UNCHANGED <<frame, calls, inst, image>>
    /\ UNCHANGED <<sessVars, catalog, vpcs, lxd>>

\* OCI.snapshot up to create_image
OCISnapshot(clean) ==
    /\ cloud = "oci"
    /\ SnapshotClean(clean, "oci_snap_create")

\* self.compute_client.create_image(CreateImageDetails(**image_details))
OCISnapshotCreateImage ==
    /\ pc = "oci_snap_create"
    /\ calls' = Append(calls, Step("create_image"))
    /\ \/ /\ image' = "pending"
          /\ pc' = "oci_snap_wait"
          /\ result' = result
       \/ /\ image' = image
          /\ pc' = "done"
          /\ result' = Raised("ServiceError", "create_image")
    /\ UNCHANGED <<frame, polls, sleeps, attempts, observed, inst>>
    /\ UNCHANGED <<sessVars, catalog, vpcs, lxd>>

\* wait_till_ready(func=get_image, desired_state="AVAILABLE"); `return image_data.id`
OCISnapshotWait ==
    /\ pc = "oci_snap_wait"
    /\ WaitPoll("wait_till_ready", image, "available", "done", Returned("image"), "TimeoutError")
    /\ UNCHANGED <<frame, calls, inst, image>>
    /\ UNCHANGED <<sessVars, catalog, vpcs, lxd>>

\* the provider completes a stop request
ProviderStop ==
    /\ inst = "stopping"
    /\ inst' = "stopped"
    /\ UNCHANGED <<pc, frame, calls, polls, sleeps, attempts, observed, image, result>>
    /\ UNCHANGED <<sessVars, catalog, vpcs, lxd>>

\* the provider finishes an image
ProviderImageReady ==
    /\ image = "pending"
    /\ image' = "available"
    /\ UNCHANGED <<pc, frame, calls, polls, sleeps, attempts, observed, inst, result>>
    /\ UNCHANGED <<sessVars, catalog, vpcs, lxd>>

InitSnapshot ==
    /\ InitSession
    /\ pc = "idle"
    /\ frame = NoFrame
    /\ calls = <<>>
    /\ polls = 0
    /\ sleeps = 0
    /\ attempts = 0
    /\ observed = "none"
    /\ inst = "running"
    /\ image = "none"
    /\ result = NoResult
    /\ catalog = NoCatalog
    /\ vpcs = NoVpcs
    /\ lxd = NoLXD

NextSnapshot ==
    \/ \E clean \in BOOLEAN : EC2Snapshot(clean)
    \/ EC2SnapshotShutdown
    \/ EC2SnapshotWaitStop
    \/ EC2SnapshotCreateImage
    \/ EC2WaitForSnapshot
    \/ EC2SnapshotTag
    \/ EC2SnapshotStart
    \/ EC2SnapshotWaitStart
    \/ \E clean \in BOOLEAN : OCISnapshot(clean)
    \/ OCISnapshotCreateImage
    \/ OCISnapshotWait
    \/ ProviderStop
    \/ ProviderImageReady
    \/ ProviderBoot

SpecSnapshot == InitSnapshot /\ [][NextSnapshot]_vars

----------------------------------------------------------------------------
(* Image resolution: released_image / daily_image *)

\* most images one catalog answer holds
MaxImages == 3

\* A creation timestamp is a fixed-width string of digits, kept as a tuple
Digits == {0, 1}
Timestamps == Digits \X Digits

\* Python's < on two strings of the same width
LexLess(a, b) == a[1] < b[1] \/ (a[1] = b[1] /\ a[2] < b[2])

\* the instant a timestamp denotes
TimeValue(ts) == 10 * ts[1] + ts[2]

DisplayNames ==
    {"Canonical-Ubuntu-20.04-2021.02.24-0",
     "Canonical-Ubuntu-20.04-aarch64-2021.02.24-0",
     "Canonical-Ubuntu-20.04-Minimal-GPU-2021.02.24-0"}

\* `"aarch64" not in i.display_name and "GPU" not in i.display_name`
OCIDisplayNameMatches(display_name) ==
    /\ display_name # "Canonical-Ubuntu-20.04-aarch64-2021.02.24-0"
    /\ display_name # "Canonical-Ubuntu-20.04-Minimal-GPU-2021.02.24-0"

ImageRecord(i, created, display_name) ==
    [id |-> "img-" \o ToString(i), created |-> created, display_name |-> display_name]

\* the Name of an EC2 image; EC2 resolution does not read it
EC2ImageNames == {"ubuntu/images/hvm-ssd/ubuntu-focal-20.04-amd64-server-20210224"}

\* the catalog answers of n records, the i-th one named img-i
Catalogs(n, names) ==
    { [i \in 1..n |-> ImageRecord(i, a[i][1], a[i][2])] :
        a \in [1..n -> Timestamps \X names] }

\* pycloudlib.util: releases with an LTS image name, and release -> version
LTS_RELEASES == {"focal"}
VersionMapKeys == {"focal", "impish"}
UBUNTU_RELEASE_VERSION_MAP(release) ==
    CASE release = "focal" -> "20.04"
      [] release = "impish" -> "21.10"

Releases == {"focal", "impish", "20.04", "warty"}
ImageTypes == {"generic", "Pro", "Pro FIPS"}
Archs == {"x86_64"}
OperatingSystems == {"Canonical Ubuntu", "Oracle Linux"}

\* re.match(r"^\d{2}\.\d{2}$", release), on the releases above
IsVersionNumber(release) == release = "20.04"

Value(v) == [ok |-> TRUE, value |-> v, exc |-> None]
Raises(e) == [ok |-> FALSE, value |-> None, exc |-> e]

\* EC2._get_name_for_image_type
EC2NameForImageType(release, image_type, daily) ==
    CASE image_type = "generic" ->
            LET base_location == <<"ubuntu", IF daily THEN "images-testing" ELSE "images",
                                   "hvm-ssd">>
                daily_part == IF daily THEN "-daily" ELSE ""
            IN  IF release \in LTS_RELEASES
                THEN Value(<<base_location, "ubuntu-", release, daily_part, "-*-server-*">>)
                ELSE Value(<<base_location, "ubuntu-", release, daily_part, "-*">>)
      [] image_type \in {"Pro", "Pro FIPS"} ->
            IF release \in VersionMapKeys
            THEN Value(<<IF image_type = "Pro" THEN "ubuntu-pro-server"
                                               ELSE "ubuntu-pro-fips*",
                         "images", "hvm-ssd", "ubuntu-", release,
                         UBUNTU_RELEASE_VERSION_MAP(release), "-*">>)
            ELSE Raises("KeyError")
      [] OTHER -> Raises("ValueError")

\* EC2._get_owner
EC2Owner(image_type) ==
    IF image_type = "generic" THEN "099720109477" ELSE "aws-marketplace"

\* s with x put behind every element that does not sort after it
\* an insertion that puts x before the elements of its own instant
InsertSortedBeforeEqual(s, x) ==
    LET before == SelectSeq(s, LAMBDA e : LexLess(e.created, x.created))
        after  == SelectSeq(s, LAMBDA e : ~LexLess(e.created, x.created))
    IN  before \o <<x>> \o after

InsertSorted(s, x) ==
    LET before == SelectSeq(s, LAMBDA e : ~LexLess(x.created, e.created))
        after  == SelectSeq(s, LAMBDA e : LexLess(x.created, e.created))
    IN  before \o <<x>> \o after

\* sorted(images, key=lambda x: x["CreationDate"]): Python's stable sort
RECURSIVE SortedByCreationDate(_)
SortedByCreationDate(images) ==
    IF images = <<>> THEN <<>>
    ELSE InsertSorted(SortedByCreationDate(SubSeq(images, 1, Len(images) - 1)),
                      images[Len(images)])

\* the last image of the answer taken without sorting the answer
EC2LatestUnsorted(images) == images[Len(images)]

\* sorted(images["Images"], key=lambda x: x["CreationDate"])[-1]
EC2Latest(images) == SortedByCreationDate(images)[Len(images)]

ImageFrame(release, image_type, daily) ==
    [NoFrame EXCEPT !.op = "image", !.release = release,
                    !.image_type = image_type, !.daily = daily]

\* EC2._find_latest_image and the ["ImageId"] its callers take
EC2FindLatestImage(release, arch, image_type, daily) ==
    /\ cloud = "ec2"
    /\ SessionReady
    /\ pc = "idle"
    /\ pc' = "done"
    /\ LET name == EC2NameForImageType(release, image_type, daily)
       IN  IF ~name.ok
           THEN /\ frame' = ImageFrame(release, image_type, daily)
                /\ calls' = calls
                /\ result' = Raised(name.exc, "release or image_type")
           ELSE /\ frame' = [ImageFrame(release, image_type, daily)
                                EXCEPT !.response = catalog]
                /\ calls' = Append(calls,
                        Call("describe_images",
                             [Owners |-> <<EC2Owner(image_type)>>,
                              Filters |-> <<[Name |-> "name", Values |-> <<name.value>>],
                                            [Name |-> "architecture", Values |-> <<arch>>]>>]))
                /\ IF catalog = <<>>
                   THEN result' = Raised("Exception", "Could not find image")
                   ELSE result' = Returned(EC2Latest(catalog).id)
    /\ UNCHANGED <<polls, sleeps, attempts, observed, inst, image>>
    /\ UNCHANGED <<sessVars, catalog, vpcs, lxd>>

\* EC2.released_image
EC2ReleasedImage(release, arch, image_type) ==
    EC2FindLatestImage(release, arch, image_type, FALSE)

\* EC2.daily_image
EC2DailyImage(release, arch, image_type) ==
    EC2FindLatestImage(release, arch, image_type, TRUE)

\* the orders that list the catalog positions `idx` latest first; positions
\* of one instant come in any order
RECURSIVE DescOrders(_)
DescOrders(idx) ==
    IF idx = {} THEN {<<>>}
    ELSE LET latest == { i \in idx : \A j \in idx :
                            TimeValue(catalog[j].created) <= TimeValue(catalog[i].created) }
         IN  UNION { { <<i>> \o rest : rest \in DescOrders(idx \ {i}) } : i \in latest }

\* the answers list_images(sort_by="TIMECREATED", sort_order="DESC") may give
ListImagesDesc ==
    { [k \in 1..Len(catalog) |-> catalog[o[k]]] : o \in DescOrders(1..Len(catalog)) }

\* the release -> version lookup of OCI.daily_image
OCIReleaseVersion(release, operating_system) ==
    IF operating_system = "Canonical Ubuntu" /\ ~IsVersionNumber(release)
    THEN IF release \in VersionMapKeys
         THEN Value(UBUNTU_RELEASE_VERSION_MAP(release))
         ELSE Raises("ValueError")
    ELSE Value(release)

\* OCI.daily_image
OCIDailyImage(release, operating_system) ==
    /\ cloud = "oci"
    /\ SessionReady
    /\ pc = "idle"
    /\ pc' = "done"
    /\ LET version == OCIReleaseVersion(release, operating_system)
           f == [ImageFrame(release, None, TRUE)
                    EXCEPT !.operating_system = operating_system]
       IN  IF ~version.ok
           THEN /\ frame' = f
                /\ calls' = calls
                /\ result' = Raised(version.exc, "Invalid release")
           ELSE /\ calls' = Append(calls,
                        Call("list_images",
                             [operating_system |-> operating_system,
                              operating_system_version |-> version.value,
                              sort_by |-> "TIMECREATED", sort_order |-> "DESC"]))
                /\ \E response \in ListImagesDesc :
                     LET matching_image ==
                             SelectSeq(response,
                                       LAMBDA i : OCIDisplayNameMatches(i.display_name))
                     IN  /\ frame' = [f EXCEPT !.response = response]
                         /\ IF matching_image = <<>>
                            THEN result' = Raised("IndexError", "list index out of range")
                            ELSE result' = Returned(matching_image[1].id)
    /\ UNCHANGED <<polls, sleeps, attempts, observed, inst, image>>
    /\ UNCHANGED <<sessVars, catalog, vpcs, lxd>>

\* OCI.released_image
OCIReleasedImage(release, operating_system) ==
    OCIDailyImage(release, operating_system)

InitImage ==
    /\ cloud \in Clouds
    /\ tag = "tag-a"
    /\ InitKeyAndConfig
    /\ InitOp
    /\ \E n \in 0..MaxImages :
          catalog \in Catalogs(n, IF cloud = "oci" THEN DisplayNames ELSE EC2ImageNames)
    /\ vpcs = NoVpcs
    /\ lxd = NoLXD

NextImage ==
    \/ \E release \in Releases, arch \in Archs, image_type \in ImageTypes \cup {None} :
            EC2ReleasedImage(release, arch, image_type)
    \/ \E release \in Releases, arch \in Archs, image_type \in ImageTypes \cup {None} :
            EC2DailyImage(release, arch, image_type)
    \/ \E release \in Releases, operating_system \in OperatingSystems :
            OCIDailyImage(release, operating_system)
    \/ \E release \in Releases, operating_system \in OperatingSystems :
            OCIReleasedImage(release, operating_system)
    \/ Return

SpecImage == InitImage /\ [][NextImage]_vars

----------------------------------------------------------------------------
(* LXDInstance.ip and LXDInstance.wait_for_stop *)

\* the IPv4 address at the head of the csv output, None when there is none
ParseIp(stdout) ==
    CASE stdout = "10.69.10.5 (eth0)\n" -> "10.69.10.5"
      [] stdout = "10.0.0.1 (eth0)" -> "10.0.0.1"
      [] OTHER -> None

\* a poll that is taken for an address although the command failed
UsableIgnoringExitCode(r) == ParseIp(r.stdout) # None

\* a poll gives an address: the command succeeded and its output parses
Usable(r) == r.return_code = 0 /\ ParseIp(r.stdout) # None

\* the retry loop ended one round early
IpGivesUpEarly(retries) == retries <= 1

\* `while retries != 0` has run out
IpGivesUp(retries) == retries = 0

\* wait_for_stop that waits for ephemeral instances too
WaitsForStateAlways(ephemeral) == TRUE

\* wait_for_stop skips the wait for an ephemeral instance
WaitsForState(ephemeral) == ~ephemeral

LXDUnchanged ==
    /\ UNCHANGED sessVars
    /\ UNCHANGED opVars
    /\ UNCHANGED <<catalog, vpcs>>

\* LXDInstance.ip is read
LXDIp ==
    /\ lxd.status = "idle"
    /\ lxd' = [lxd EXCEPT !.op = "ip", !.status = "polling", !.retries = RETRIES]
    /\ LXDUnchanged

\* the loop of LXDInstance.ip with the sleep taken before the output is looked at
LXDIpPollSleepsAlways(out) ==
    /\ lxd.status = "polling"
    /\ IF Usable(out)
       THEN lxd' = [lxd EXCEPT !.subp_calls = @ + 1, !.last = out,
                               !.sleep_calls = @ + 1,
                               !.status = "returned", !.value = ParseIp(out.stdout)]
       ELSE IF IpGivesUp(lxd.retries - 1)
       THEN lxd' = [lxd EXCEPT !.subp_calls = @ + 1, !.last = out,
                               !.sleep_calls = @ + 1, !.retries = @ - 1,
                               !.status = "raised", !.exc = "TimeoutError",
                               !.raw = out]
       ELSE lxd' = [lxd EXCEPT !.subp_calls = @ + 1, !.last = out,
                               !.sleep_calls = @ + 1, !.retries = @ - 1]
    /\ LXDUnchanged

\* one round of the loop of LXDInstance.ip: run lxc, return the address or
\* sleep and count the retry down; TimeoutError when none is left
LXDIpPoll(out) ==
    /\ lxd.status = "polling"
    /\ IF Usable(out)
       THEN lxd' = [lxd EXCEPT !.subp_calls = @ + 1, !.last = out,
                               !.status = "returned", !.value = ParseIp(out.stdout)]
       ELSE IF IpGivesUp(lxd.retries - 1)
       THEN lxd' = [lxd EXCEPT !.subp_calls = @ + 1, !.last = out,
                               !.sleep_calls = @ + 1, !.retries = @ - 1,
                               !.status = "raised", !.exc = "TimeoutError",
                               !.raw = out]
       ELSE lxd' = [lxd EXCEPT !.subp_calls = @ + 1, !.last = out,
                               !.sleep_calls = @ + 1, !.retries = @ - 1]
    /\ LXDUnchanged

\* LXDInstance.wait_for_stop, wait_for_state mocked
LXDWaitForStop ==
    /\ lxd.status = "idle"
    /\ lxd' = [lxd EXCEPT !.op = "wait_for_stop", !.status = "returned",
                          !.wait_for_state_calls =
                              IF WaitsForState(lxd.ephemeral) THEN @ + 1 ELSE @]
    /\ LXDUnchanged

\* the stop command carrying --force whatever `force` is
LXDStopCommandForced(force) == <<"lxc", "stop", "test", "--force">>

\* the command LXDInstance.shutdown hands to subp
LXDStopCommand(force) ==
    IF force THEN <<"lxc", "stop", "test", "--force">> ELSE <<"lxc", "stop", "test">>

\* LXDInstance.shutdown(wait, force) of a running instance up to the return
\* of subp, wait_for_stop mocked
LXDShutdown(wait, force) ==
    /\ lxd.status = "idle"
    /\ lxd.state = "RUNNING"
    /\ lxd' = [lxd EXCEPT !.op = "shutdown", !.wait = wait, !.force = force,
                          !.cmds = Append(@, LXDStopCommand(force)),
                          !.subp_calls = @ + 1,
                          !.status = IF wait THEN "stopping" ELSE "returned"]
    /\ LXDUnchanged

\* `if wait: self.wait_for_stop()` of LXDInstance.shutdown
LXDShutdownWait ==
    /\ lxd.status = "stopping"
    /\ lxd' = [lxd EXCEPT !.wait_for_stop_calls = @ + 1, !.status = "returned"]
    /\ LXDUnchanged

\* delete that takes every instance for one that stays when stopped
DeleteStopsNever(ephemeral) == FALSE

\* delete stops an ephemeral instance instead of deleting it
DeleteStops(ephemeral) == ephemeral

\* LXDInstance.delete(wait), subp and LXDInstance.shutdown mocked
LXDDelete(wait) ==
    /\ lxd.status = "idle"
    /\ lxd' = IF DeleteStops(lxd.ephemeral)
              THEN [lxd EXCEPT !.op = "delete", !.wait = wait, !.status = "returned",
                               !.shutdown_calls = @ + 1]
              ELSE [lxd EXCEPT !.op = "delete", !.wait = wait, !.status = "returned",
                               !.subp_calls = @ + 1,
                               !.cmds = Append(@, <<"lxc", "delete", "test", "--force">>)]
    /\ LXDUnchanged

\* the next test starts from a fresh instance and fresh mocks
LXDReset ==
    /\ lxd.status \in {"returned", "raised"}
    /\ lxd' = NewLXD(lxd.ephemeral, lxd.state)
    /\ LXDUnchanged

LXDStates == {"RUNNING", "STOPPED", "FROZEN"}

InitLXD ==
    /\ cloud = "lxd"
    /\ tag = "tag-a"
    /\ InitKeyAndConfig
    /\ InitOp
    /\ catalog = NoCatalog
    /\ vpcs = NoVpcs
    /\ \E ephemeral \in BOOLEAN, state \in LXDStates : lxd = NewLXD(ephemeral, state)

NextLXD ==
    \/ LXDIp
    \/ \E out \in LxcOutputs : LXDIpPoll(out)
    \/ LXDWaitForStop
    \/ \E wait \in BOOLEAN, force \in BOOLEAN : LXDShutdown(wait, force)
    \/ LXDShutdownWait
    \/ \E wait \in BOOLEAN : LXDDelete(wait)
    \/ LXDReset

SpecLXD == InitLXD /\ [][NextLXD]_vars

----------------------------------------------------------------------------
(* Construction of a session *)

\* the adapters a session may be constructed for: EC2, OCI, and one that
\* declares no required values
Adapters == Clouds \cup {"base"}

\* before the constructor runs: nothing but the configuration file exists
InitConfig ==
    /\ cloud \in Adapters
    /\ tag = None
    /\ key_name = None
    /\ key_path = None
    /\ config_file \in ConfigFiles(cloud)
    /\ config = EmptyDict
    /\ session = NewSession
    /\ InitOp
    /\ catalog = NoCatalog
    /\ vpcs = NoVpcs
    /\ lxd = NoLXD

NextConfig ==
    \/ \E tag_arg \in Tags, timestamp_suffix \in BOOLEAN, now \in Clock,
          args \in CtorArgs("ec2"), ambient \in BOOLEAN :
            EC2Init(tag_arg, timestamp_suffix, now, args, ambient)
    \/ \E tag_arg \in Tags, timestamp_suffix \in BOOLEAN, now \in Clock,
          args \in CtorArgs("oci"), config_dict \in ConfigDicts,
          cli \in {None, "cli-compartment"} :
            OCIInit(tag_arg, timestamp_suffix, now, args, config_dict, cli)
    \/ \E tag_arg \in Tags, timestamp_suffix \in BOOLEAN, now \in Clock :
            BaseCloudInit(tag_arg, timestamp_suffix, now)

SpecConfig == InitConfig /\ [][NextConfig]_vars

----------------------------------------------------------------------------
(* get_instance, delete_image, use_key, upload_key *)

\* instance ids the provider knows, and the ids a caller may pass
KnownInstances == {"i-1"}
InstanceIds == {"i-1", "i-9"}

\* the provider knows an image id when its catalog holds a record of that id
KnownImage(image_id) == \E i \in 1..Len(catalog) : catalog[i].id = image_id

\* image ids a caller may pass to delete_image
DeletedImageIds == {"img-1", "img-9"}

\* the catalog once the provider has removed the image
WithoutImage(image_id) == SelectSeq(catalog, LAMBDA r : r.id # image_id)

IdFrame(op, id) == [NoFrame EXCEPT !.op = op, !.id = id]

\* EC2.get_instance: a resource object made from the id, wrapped and returned
EC2GetInstance(instance_id) ==
    /\ cloud = "ec2"
    /\ SessionReady
    /\ pc = "idle"
    /\ frame' = IdFrame("get_instance", instance_id)
    /\ calls' = calls
    /\ result' = Returned("instance")
    /\ pc' = "done"
    /\ UNCHANGED <<polls, sleeps, attempts, observed, inst, image>>
    /\ UNCHANGED <<sessVars, catalog, vpcs, lxd>>

\* OCI.get_instance: the provider is asked for the instance first
OCIGetInstance(instance_id) ==
    /\ cloud = "oci"
    /\ SessionReady
    /\ pc = "idle"
    /\ frame' = IdFrame("get_instance", instance_id)
    /\ calls' = Append(calls, Call("get_instance", [instance_id |-> instance_id]))
    /\ \/ /\ instance_id \in KnownInstances
          /\ result' = Returned("instance")
       \/ result' = Raised("Exception", "Unable to retrieve instance")
    /\ pc' = "done"
    /\ UNCHANGED <<polls, sleeps, attempts, observed, inst, image>>
    /\ UNCHANGED <<sessVars, catalog, vpcs, lxd>>

\* EC2.delete_image: the image's snapshot id is read, the image is
\* deregistered, its snapshot is deleted; each provider call may fail
EC2DeleteImage(image_id) ==
    /\ cloud = "ec2"
    /\ SessionReady
    /\ pc = "idle"
    /\ frame' = IdFrame("delete_image", image_id)
    /\ pc' = "done"
    /\ LET load == Call("describe_images", [ImageIds |-> <<image_id>>])
           deregister == Call("deregister_image", [ImageId |-> image_id])
           delete == Call("delete_snapshot", [SnapshotId |-> "snap-" \o image_id])
       IN  \/ /\ ~KnownImage(image_id)
              /\ calls' = calls \o <<load>>
              /\ result' \in {Raised("ClientError", "InvalidAMIID.NotFound"),
                              Raised("TypeError", "block_device_mappings is None")}
              /\ catalog' = catalog
           \/ /\ calls' = calls \o <<load>>
              /\ result' = Raised("ClientError", "describe_images")
              /\ catalog' = catalog
           \/ /\ KnownImage(image_id)
              /\ calls' = calls \o <<load, deregister>>
              /\ result' = Raised("ClientError", "deregister_image")
              /\ catalog' = catalog
           \/ /\ KnownImage(image_id)
              /\ calls' = calls \o <<load, deregister, delete>>
              /\ result' \in {Returned(None), Raised("ClientError", "delete_snapshot")}
              /\ catalog' = WithoutImage(image_id)
    /\ UNCHANGED <<polls, sleeps, attempts, observed, inst, image>>
    /\ UNCHANGED <<sessVars, vpcs, lxd>>

\* OCI.delete_image: self.compute_client.delete_image(image_id)
OCIDeleteImage(image_id) ==
    /\ cloud = "oci"
    /\ SessionReady
    /\ pc = "idle"
    /\ frame' = IdFrame("delete_image", image_id)
    /\ pc' = "done"
    /\ calls' = Append(calls, Call("delete_image", [image_id |-> image_id]))
    /\ \/ /\ KnownImage(image_id)
          /\ result' = Returned(None)
          /\ catalog' = WithoutImage(image_id)
       \/ /\ result' = Raised("ServiceError", "delete_image")
          /\ catalog' = catalog
    /\ UNCHANGED <<polls, sleeps, attempts, observed, inst, image>>
    /\ UNCHANGED <<sessVars, vpcs, lxd>>

\* public key files a caller may name, and names a caller may give a key
KeyPaths == {"new_key.pub"}
KeyNames == {None, "key-b"}

\* KeyPair.public_key_content: what the file at the path holds
PublicKeyContent(path) == <<"content of", path>>

\* BaseCloud.use_key: self.key_pair = KeyPair(public_key_path, private_key_path, name)
BaseUseKey(public_key_path, name) ==
    /\ key_path' = public_key_path
    /\ key_name' = name
    /\ UNCHANGED <<cloud, tag, config_file, config, session>>

\* use_key that stores the name as the tag of the session
EC2UseKeyRenamesTag(public_key_path, name) ==
    /\ cloud = "ec2"
    /\ SessionReady
    /\ pc = "idle"
    /\ key_path' = public_key_path
    /\ key_name' = IF ~Truthy(name) THEN tag ELSE name
    /\ tag' = IF ~Truthy(name) THEN tag ELSE name
    /\ UNCHANGED <<cloud, config_file, config, session>>
    /\ UNCHANGED <<opVars, catalog, vpcs, lxd>>

\* EC2.use_key: `if not name: name = self.tag`, then BaseCloud.use_key
EC2UseKey(public_key_path, name) ==
    /\ cloud = "ec2"
    /\ SessionReady
    /\ pc = "idle"
    /\ BaseUseKey(public_key_path, IF ~Truthy(name) THEN tag ELSE name)
    /\ UNCHANGED <<opVars, catalog, vpcs, lxd>>

\* use_key of OCI, which inherits BaseCloud.use_key
OCIUseKey(public_key_path, name) ==
    /\ cloud = "oci"
    /\ SessionReady
    /\ pc = "idle"
    /\ BaseUseKey(public_key_path, name)
    /\ UNCHANGED <<opVars, catalog, vpcs, lxd>>

\* EC2.upload_key: import_key_pair with the content of the key pair in use,
\* then use_key with the arguments
EC2UploadKey(public_key_path, name) ==
    /\ cloud = "ec2"
    /\ SessionReady
    /\ pc = "idle"
    /\ frame' = [NoFrame EXCEPT !.op = "upload_key", !.id = name,
                                !.args = [public_key_path |-> public_key_path]]
    /\ calls' = Append(calls, Call("import_key_pair",
                                   [KeyName |-> name,
                                    PublicKeyMaterial |-> PublicKeyContent(key_path)]))
    /\ pc' = "done"
    /\ \/ /\ name # None
          /\ result' = Returned(None)
          /\ BaseUseKey(public_key_path, IF ~Truthy(name) THEN tag ELSE name)
       \/ /\ result' = Raised("ClientError", "import_key_pair")
          /\ UNCHANGED sessVars
    /\ UNCHANGED <<polls, sleeps, attempts, observed, inst, image>>
    /\ UNCHANGED <<catalog, vpcs, lxd>>

\* the caller holds an instance of the session that is running by now
CallerHoldsInstance ==
    /\ SessionReady
    /\ pc = "idle"
    /\ inst = "none"
    /\ inst' = "running"
    /\ UNCHANGED <<pc, frame, calls, polls, sleeps, attempts, observed, image, result>>
    /\ UNCHANGED <<sessVars, catalog, vpcs, lxd>>

----------------------------------------------------------------------------
(* A session: construction, then any sequence of operations *)

InitSessionNew ==
    /\ cloud \in Clouds
    /\ tag = None
    /\ key_name = None
    /\ key_path = None
    /\ config_file = EmptyDict
    /\ config = EmptyDict
    /\ session = NewSession
    /\ InitOp
    /\ \E n \in 0..1 :
          catalog \in Catalogs(n, IF cloud = "oci" THEN DisplayNames ELSE EC2ImageNames)
    /\ vpcs = NoVpcs
    /\ lxd = NoLXD

\* the constructor calls of a caller who gives every provider value
Construct ==
    \/ \E tag_arg \in {"tag-a"}, timestamp_suffix \in BOOLEAN, now \in Clock :
            EC2Init(tag_arg, timestamp_suffix, now,
                    [k \in ProviderKeys("ec2") |-> "arg"], TRUE)
    \/ \E tag_arg \in {"tag-a"}, timestamp_suffix \in BOOLEAN, now \in Clock :
            OCIInit(tag_arg, timestamp_suffix, now,
                    [k \in ProviderKeys("oci") |-> "arg"], None, "cli-compartment")

Operation ==
    \/ \E image_id \in ImageIds, instance_type \in InstanceTypes,
          user_data \in UserDatas, wait \in BOOLEAN,
          vpc \in Vpcs \cup {None}, kwargs \in EC2Kwargs :
            EC2Launch(image_id, instance_type, user_data, wait, vpc, kwargs)
    \/ EC2LaunchVpc
    \/ EC2LaunchCreate
    \/ \E image_id \in ImageIds, instance_type \in InstanceTypes,
          user_data \in UserDatas, wait \in BOOLEAN, kwargs \in OCIKwargs :
            OCILaunch(image_id, instance_type, user_data, wait, kwargs)
    \/ OCILaunchDetails
    \/ OCILaunchCreate
    \/ OCILaunchGetInstance
    \/ OCIWaitTillReady
    \/ InstanceWait
    \/ \E clean \in BOOLEAN : EC2Snapshot(clean)
    \/ EC2SnapshotShutdown
    \/ EC2SnapshotWaitStop
    \/ EC2SnapshotCreateImage
    \/ EC2WaitForSnapshot
    \/ EC2SnapshotTag
    \/ EC2SnapshotStart
    \/ EC2SnapshotWaitStart
    \/ \E clean \in BOOLEAN : OCISnapshot(clean)
    \/ OCISnapshotCreateImage
    \/ OCISnapshotWait
    \/ \E release \in Releases, arch \in Archs, image_type \in ImageTypes \cup {None} :
            EC2ReleasedImage(release, arch, image_type)
    \/ \E release \in Releases, arch \in Archs, image_type \in ImageTypes \cup {None} :
            EC2DailyImage(release, arch, image_type)
    \/ \E release \in Releases, operating_system \in OperatingSystems :
            OCIDailyImage(release, operating_system)
    \/ \E release \in Releases, operating_system \in OperatingSystems :
            OCIReleasedImage(release, operating_system)
    \/ \E instance_id \in InstanceIds : EC2GetInstance(instance_id)
    \/ \E instance_id \in InstanceIds : OCIGetInstance(instance_id)
    \/ \E image_id \in DeletedImageIds : EC2DeleteImage(image_id)
    \/ \E image_id \in DeletedImageIds : OCIDeleteImage(image_id)
    \/ \E public_key_path \in KeyPaths, name \in KeyNames :
            EC2UseKey(public_key_path, name)
    \/ \E public_key_path \in KeyPaths, name \in KeyNames :
            OCIUseKey(public_key_path, name)
    \/ \E public_key_path \in KeyPaths, name \in KeyNames :
            EC2UploadKey(public_key_path, name)
    \/ CallerHoldsInstance
    \/ ProviderBoot
    \/ ProviderStop
    \/ ProviderImageReady
    \/ Return

NextSession ==
    \/ Construct
    \/ Operation

SpecSession == InitSessionNew /\ [][NextSession]_vars

----------------------------------------------------------------------------
(* EC2.get_or_create_vpc *)

\* number of VPCs the provider holds before the session starts
MaxVpcs == 2

\* names a VPC may be tagged with, and CIDR blocks a caller may ask for
VpcNames == {"vpc-a", "vpc-b"}
Cidrs == {"192.168.1.0/20", "10.0.0.0/16"}

\* a VPC of the provider: its id, its Name tag and its CIDR block
VpcRecord(n, name, cidr) == [VpcId |-> "vpc-id-" \o ToString(n), name |-> name, cidr |-> cidr]

\* what the provider may hold before the session starts
VpcInventories(n) ==
    { [i \in 1..n |-> VpcRecord(i, names[i], "172.16.0.0/16")] : names \in [1..n -> VpcNames] }

\* describe_vpcs(Filters=[{"Name": "tag:Name", "Values": [name]}])["Vpcs"]
DescribeVpcs(name) == SelectSeq(vpcs, LAMBDA v : v.name = name)

\* VPC.create(resource, name, ipv4_cidr): the VPC the provider holds afterwards
VpcCreated(name, ipv4_cidr) == VpcRecord(Len(vpcs) + 1, name, ipv4_cidr)

\* the lookup taken to have found nothing whatever it returned
VpcFoundNever(found) == FALSE

\* `if vpcs:`
VpcFound(found) == found # <<>>

\* EC2.get_or_create_vpc(name, ipv4_cidr): the lookup, then VPC.from_existing
\* of the first match or VPC.create; each provider call may fail
EC2GetOrCreateVpc(name, ipv4_cidr) ==
    /\ cloud = "ec2"
    /\ SessionReady
    /\ pc = "idle"
    /\ pc' = "done"
    /\ LET found == DescribeVpcs(name)
           describe == Call("describe_vpcs", [name |-> name])
           f == [NoFrame EXCEPT !.op = "get_or_create_vpc", !.id = name,
                                !.args = [ipv4_cidr |-> ipv4_cidr]]
           new == VpcCreated(name, ipv4_cidr)
       IN  \/ /\ frame' = f
              /\ calls' = calls \o <<describe>>
              /\ result' = Raised("ClientError", "describe_vpcs")
              /\ vpcs' = vpcs
           \/ /\ frame' = [f EXCEPT !.response = found]
              /\ IF VpcFound(found)
                 THEN /\ calls' = calls \o <<describe,
                                            Call("VPC.from_existing",
                                                 [vpc_id |-> found[1].VpcId])>>
                      /\ result' = Returned(found[1].VpcId)
                      /\ vpcs' = vpcs
                 ELSE /\ calls' = calls \o <<describe,
                                            Call("VPC.create",
                                                 [name |-> name, ipv4_cidr |-> ipv4_cidr])>>
                      /\ \/ /\ result' = Returned(new.VpcId)
                            /\ vpcs' = Append(vpcs, new)
                         \/ /\ result' = Raised("ClientError", "VPC.create")
                            /\ vpcs' = vpcs
    /\ UNCHANGED <<polls, sleeps, attempts, observed, inst, image>>
    /\ UNCHANGED <<sessVars, catalog, lxd>>

InitVpc ==
    /\ cloud = "ec2"
    /\ tag \in Tags
    /\ InitKeyAndConfig
    /\ InitOp
    /\ catalog = NoCatalog
    /\ \E n \in 0..MaxVpcs : vpcs \in VpcInventories(n)
    /\ lxd = NoLXD

NextVpc ==
    \/ \E name \in VpcNames, ipv4_cidr \in Cidrs : EC2GetOrCreateVpc(name, ipv4_cidr)
    \/ Return

SpecVpc == InitVpc /\ [][NextVpc]_vars

----------------------------------------------------------------------------
(* Claims about launch *)

LaunchDone == pc = "done" /\ frame.op = "launch"

\* C1: launch with an empty or None image_id fails with InvalidArgument before
\* any provider call: it is done at once, with no provider call in the log,
\* no poll, no delay and no instance created.
C1_EmptyImageIdRejectedBeforeAnyCall ==
    (frame.op = "launch" /\ ~Truthy(frame.image_id)) =>
        /\ pc = "done"
        /\ ErrorKind(result) = "InvalidArgument"
        /\ calls = <<>>
        /\ polls = 0
        /\ sleeps = 0
        /\ inst = "none"

C1_Witness ==
    /\ LaunchDone
    /\ cloud = "oci"
    /\ frame.image_id = ""
    /\ result.status = "raised"

CreateRequests ==
    { calls[i].args : i \in { j \in 1..Len(calls) :
          calls[j].name \in {"create_instances", "launch_instance"} } }

\* C15 as stated: every key of the caller's extra parameters reaches the
\* provider with the caller's value, and a key the adapter sets as well does
\* not make the launch fail.
C15_Original ==
    frame.op = "launch" =>
        /\ \A request \in CreateRequests :
              \A k \in DOMAIN frame.kwargs :
                  k \in DOMAIN request /\ request[k] = frame.kwargs[k]
        /\ result.exc # "TypeError"

C16_WitnessCallerTags ==
    /\ LaunchDone
    /\ cloud = "ec2"
    /\ inst # "none"
    /\ \E request \in CreateRequests : request.TagSpecifications = NameTag("custom")

\* C17 as stated: EC2.launch with a vpc raises UnsupportedTopologyError
\* exactly when the vpc has more than one subnet and then sends no creation
\* request; with one subnet every creation request carries the id of that
\* subnet and the ids of all security groups of the vpc.
C17_Original ==
    (/\ frame.op = "launch"
     /\ cloud = "ec2"
     /\ frame.vpc # None
     /\ pc \notin {"idle", "ec2_vpc"}
     /\ Truthy(frame.image_id))
    => /\ ErrorKind(result) = "UnsupportedTopologyError" <=> Len(Subnets(frame.vpc)) > 1
       /\ ErrorKind(result) = "UnsupportedTopologyError" => CreateRequests = {}
       /\ Len(Subnets(frame.vpc)) = 1 =>
             \A request \in CreateRequests :
                 /\ request.SubnetId = Subnets(frame.vpc)[1]
                 /\ request.SecurityGroupIds = SecurityGroups(frame.vpc)

\* the part of C17 the code keeps: the error is raised exactly when the vpc
\* does not have exactly one subnet
C17_FailsUnlessOneSubnet ==
    (/\ frame.op = "launch"
     /\ cloud = "ec2"
     /\ frame.vpc # None
     /\ pc \notin {"idle", "ec2_vpc"}
     /\ Truthy(frame.image_id))
    => /\ ErrorKind(result) = "UnsupportedTopologyError" <=> Len(Subnets(frame.vpc)) # 1
       /\ ErrorKind(result) = "UnsupportedTopologyError" => CreateRequests = {}
       /\ Len(Subnets(frame.vpc)) = 1 =>
             \A request \in CreateRequests :
                 /\ request.SubnetId = Subnets(frame.vpc)[1]
                 /\ request.SecurityGroupIds = SecurityGroups(frame.vpc)

----------------------------------------------------------------------------
(* Claims about snapshot *)

CallNames(log) == [i \in 1..Len(log) |-> log[i].name]

IsPrefix(a, b) == Len(a) <= Len(b) /\ \A i \in 1..Len(a) : a[i] = b[i]

CleanStep(clean) == IF clean THEN <<"clean">> ELSE <<>>

\* the steps of the documented snapshot sequence
FullSnapshotSteps(clean) ==
    CleanStep(clean) \o <<"shutdown", "create_image", "create_tags", "start">>

\* state of the instance / of the image when step `name` was issued
IssuedWith(name, field, value) ==
    \A i \in 1..Len(calls) : calls[i].name = name => calls[i].args[field] = value

Issued(name) == \E i \in 1..Len(calls) : calls[i].name = name

SnapshotReturned == frame.op = "snapshot" /\ pc = "done" /\ result.status = "returned"

ShutdownCompleted ==
    /\ Issued("shutdown")
    /\ pc # "snap_wait_stop"
    /\ ~(result.status = "raised" /\ result.msg = "wait_for_stop")

RaisedAfterShutdown ==
    /\ result.status = "raised"
    /\ result.msg \in {"create_image", "image_available", "create_tags"}

----------------------------------------------------------------------------
(* Claims about image resolution *)

\* the records of the catalog answer the adapter chooses among
Candidates ==
    IF cloud = "oci"
    THEN { catalog[i] : i \in { j \in 1..Len(catalog) :
                                   OCIDisplayNameMatches(catalog[j].display_name) } }
    ELSE { catalog[i] : i \in 1..Len(catalog) }

\* a resolution that got as far as its catalog query is done
ResolutionDone == frame.op = "image" /\ pc = "done" /\ calls # <<>>

\* C9 as stated: a resolution whose query leaves no candidate fails with
\* ImageNotFoundError and returns no image id.
C9_Original ==
    (ResolutionDone /\ Candidates = {}) =>
        /\ ErrorKind(result) = "ImageNotFoundError"
        /\ result.value = None

DistinctTimestamps ==
    \A a, b \in Candidates : a.created = b.created => a = b

\* C10: with at least one candidate and pairwise distinct creation
\* timestamps, whatever the order of the catalog answer, the resolution
\* returns the id of the candidate created last.
C10_ReturnsLatestCandidate ==
    (ResolutionDone /\ Candidates # {} /\ DistinctTimestamps) =>
        /\ result.status = "returned"
        /\ \E c \in Candidates :
              /\ result.value = c.id
              /\ \A d \in Candidates : TimeValue(d.created) <= TimeValue(c.created)

C10_Witness ==
    /\ ResolutionDone
    /\ cloud = "ec2"
    /\ Cardinality(Candidates) = 3
    /\ DistinctTimestamps
    /\ result.value = "img-2"

\* positions of the catalog answer that hold a candidate no other candidate
\* of the answer is later than
LatestPositions ==
    LET answer == frame.response
        candidate(p) == cloud = "oci" => OCIDisplayNameMatches(answer[p].display_name)
    IN  { p \in 1..Len(answer) :
            /\ candidate(p)
            /\ \A q \in 1..Len(answer) :
                  candidate(q) =>
                      TimeValue(answer[q].created) <= TimeValue(answer[p].created) }

\* C11: the image a resolution selects is a function of the catalog answer
\* alone, so that two resolutions of one answer agree: among the candidates of
\* the latest creation timestamp EC2 selects the one that comes last in the
\* answer and OCI the one that comes first.
C11_SelectionFixedByAnswerOrder ==
    (ResolutionDone /\ LatestPositions # {}) =>
        /\ result.status = "returned"
        /\ \E p \in LatestPositions :
              /\ result.value = frame.response[p].id
              /\ \A q \in LatestPositions : IF cloud = "ec2" THEN q <= p ELSE p <= q

C11_Witness ==
    /\ ResolutionDone
    /\ cloud = "ec2"
    /\ Cardinality(LatestPositions) = 2
    /\ Len(frame.response) = 3
    /\ result.value = frame.response[2].id

C11_WitnessOCI ==
    /\ ResolutionDone
    /\ cloud = "oci"
    /\ Cardinality(LatestPositions) = 2
    /\ result.status = "returned"

\* C12 as stated: resolving a release that the release-to-version table does
\* not hold, for a PRO or PRO_FIPS image on EC2 or for a release that is not a
\* version number on OCI, fails with InvalidArgument before any provider call.
C12_Original ==
    (/\ frame.op = "image"
     /\ pc = "done"
     /\ frame.release \notin VersionMapKeys
     /\ \/ cloud = "ec2" /\ frame.image_type \in {"Pro", "Pro FIPS"}
        \/ /\ cloud = "oci"
           /\ frame.operating_system = "Canonical Ubuntu"
           /\ ~IsVersionNumber(frame.release))
    => /\ ErrorKind(result) = "InvalidArgument"
       /\ calls = <<>>

\* the part of C12 both adapters keep: such a resolution raises without any
\* provider call
C12_NoCallBeforeFailure ==
    (/\ frame.op = "image"
     /\ pc = "done"
     /\ frame.release \notin VersionMapKeys
     /\ \/ cloud = "ec2" /\ frame.image_type \in {"Pro", "Pro FIPS"}
        \/ /\ cloud = "oci"
           /\ frame.operating_system = "Canonical Ubuntu"
           /\ ~IsVersionNumber(frame.release))
    => /\ result.status = "raised"
       /\ calls = <<>>

----------------------------------------------------------------------------
(* Claims about the convergence waiter of LXDInstance.ip and wait_for_stop *)

\* a poll without an address: unparseable text, a failed command, no output
BadPoll(r) == r.return_code # 0 \/ r.stdout \in {"", "unparseable"}

\* C3: when the N-th probe is the first usable one (1 <= N <= budget), the
\* waiter returns its address after exactly N probes and N-1 delays, and it
\* does not probe again once it has returned.
C3_ReturnsAfterNProbes ==
    /\ [](lxd.op = "ip" /\ lxd.status = "returned" =>
            /\ lxd.subp_calls \in 1..RETRIES
            /\ lxd.sleep_calls = lxd.subp_calls - 1
            /\ ~BadPoll(lxd.last)
            /\ lxd.value = ParseIp(lxd.last.stdout)
            /\ lxd.value # None)
    /\ [][lxd.op = "ip" /\ lxd.status = "returned" =>
            lxd'.status # "polling" /\ lxd'.subp_calls <= lxd.subp_calls]_vars

C3_Witness ==
    /\ lxd.op = "ip"
    /\ lxd.status = "returned"
    /\ lxd.subp_calls = RETRIES
    /\ lxd.sleep_calls = RETRIES - 1

C6_NoWaitForEphemeral ==
    (lxd.op = "wait_for_stop" /\ lxd.status = "returned") =>
        lxd.wait_for_state_calls = IF lxd.ephemeral THEN 0 ELSE 1

C6_Witness ==
    /\ lxd.op = "wait_for_stop"
    /\ lxd.status = "returned"
    /\ lxd.ephemeral
    /\ lxd.state = "STOPPED"
    /\ lxd.wait_for_state_calls = 0

----------------------------------------------------------------------------
(* Claims about construction *)

\* the values each adapter declares as required to BaseCloud.__init__
DeclaredRequired(c) ==
    CASE c = "ec2" -> {"access_key_id", "secret_access_key", "region"}
      [] c = "oci" -> {"availability_domain", "compartment_id"}
      [] OTHER -> {}

AllRequiredGiven ==
    /\ DeclaredRequired(cloud) # {}
    /\ \A k \in DeclaredRequired(cloud) : session.args[k] # None

\* C13: the constructor does not load the configuration file when every value
\* the adapter declares as required was given as an argument, and loads the
\* section named by the adapter's type when one is missing or none is declared
C13_ConfigLoadedOnlyWhenNeeded ==
    session.status # "new" =>
        IF AllRequiredGiven
        THEN session.parsed = 0 /\ config = EmptyDict
        ELSE session.parsed = 1 /\ config = config_file

C13_Witness ==
    /\ session.status = "constructed"
    /\ AllRequiredGiven
    /\ session.parsed = 0
    /\ config_file # EmptyDict

C13_WitnessLoaded ==
    /\ session.status = "constructed"
    /\ cloud = "base"
    /\ session.parsed = 1
    /\ config_file # EmptyDict

\* C14 as stated: a given argument is the value used, and a file value is
\* used only for an argument that was not given
C14_Original ==
    session.status = "constructed" =>
        \A k \in ProviderKeys(cloud) :
            /\ session.args[k] # None => session.used[k] = session.args[k]
            /\ session.used[k] = "file" => session.args[k] = None

\* C14: a non-empty argument is the value the session uses, whatever the file
\* holds, except that config_path is not used at all with a config_dict; a file
\* value is used only for an argument that is None or empty
C14_NonEmptyArgumentWins ==
    session.status = "constructed" =>
        \A k \in ProviderKeys(cloud) :
            /\ (Truthy(session.args[k])
                /\ ~(k = "config_path" /\ Truthy(session.config_dict)))
                  => session.used[k] = session.args[k]
            /\ session.used[k] = "file" =>
                  ~Truthy(session.args[k]) /\ k \in DOMAIN config_file

C14_Witness ==
    /\ session.status = "constructed"
    /\ session.parsed = 1
    /\ \E k \in ProviderKeys(cloud) :
          Truthy(session.args[k]) /\ k \in DOMAIN config_file
    /\ \E k \in ProviderKeys(cloud) : session.used[k] = "file"

----------------------------------------------------------------------------
(* Claims about LXDInstance.shutdown *)

----------------------------------------------------------------------------
(* Claims about the session tag, get_instance and delete_image *)

\* C18: the constructor sets the tag to the given tag, with a timestamp
\* suffix when one is asked for, and no step after construction (launch,
\* snapshot, delete_image, get_instance, use_key, upload_key, image
\* resolution) changes it.
C18_TagSetOnceAtConstruction ==
    /\ [](session.status = "constructed" =>
            IF session.timestamp_suffix
            THEN \E now \in Clock : tag = session.tag_arg \o "-" \o now
            ELSE tag = session.tag_arg)
    /\ [][session.status # "new" => tag' = tag]_vars

C18_Witness ==
    /\ session.status = "constructed"
    /\ session.timestamp_suffix
    /\ cloud = "ec2"
    /\ key_path = "new_key.pub"
    /\ key_name = "key-b"
    /\ frame.op = "delete_image"
    /\ pc = "done"

\* the provider does not know the id the running operation was given
UnknownId ==
    \/ frame.op = "get_instance" /\ frame.id \notin KnownInstances
    \/ frame.op = "delete_image" /\ ~KnownImage(frame.id)

\* C19 as stated: get_instance and delete_image of an id the provider does
\* not know end with NotFoundError and never with an instance object.
C19_Original ==
    (pc = "done" /\ UnknownId) =>
        /\ ErrorKind(result) = "NotFoundError"
        /\ result.value # "instance"

\* the part of C19 about deletion: delete_image of an id the provider does
\* not know raises and leaves the provider's images as they were
C19_NoDeletionForUnknownId ==
    [][(pc = "idle" /\ pc' = "done" /\ frame'.op = "delete_image"
        /\ ~KnownImage(frame'.id))
       => (catalog' = catalog /\ result'.status = "raised"
           /\ \A i \in 1..Len(calls') :
                 calls'[i].name \notin {"deregister_image", "delete_snapshot"})]_vars

----------------------------------------------------------------------------
(* Claims about upload_key *)

\* the key material upload_key registered with the provider, by key name
ImportedKeys ==
    { calls[i].args : i \in { j \in 1..Len(calls) : calls[j].name = "import_key_pair" } }

\* C23 as stated: when upload_key(public_key_path, private_key_path, name)
\* returns, the material registered under `name` is the content of the key at
\* public_key_path, and the key pair of the session is that same key.
C23_Original ==
    (frame.op = "upload_key" /\ pc = "done" /\ result.status = "returned") =>
        /\ key_path = frame.args.public_key_path
        /\ \A k \in ImportedKeys :
              /\ k.KeyName = frame.id
              /\ k.PublicKeyMaterial = PublicKeyContent(frame.args.public_key_path)

\* what upload_key does register: the content of the key the session held
\* when the call was made
C23_UploadsKeyHeldBefore ==
    [][(pc = "idle" /\ frame'.op = "upload_key" /\ pc' = "done")
       => \A i \in 1..Len(calls') :
             calls'[i].args.PublicKeyMaterial = PublicKeyContent(key_path)]_vars

----------------------------------------------------------------------------
(* Claims about LXDInstance.delete *)

\* C21: delete of an ephemeral LXD instance calls shutdown once and hands no
\* command to subp; delete of any other instance hands subp exactly one
\* command, the forced lxc delete of the instance, and does not call shutdown.
C21_DeleteStopsEphemeral ==
    lxd.op = "delete" =>
        IF lxd.ephemeral
        THEN /\ lxd.shutdown_calls = 1
             /\ lxd.subp_calls = 0
             /\ lxd.cmds = <<>>
        ELSE /\ lxd.shutdown_calls = 0
             /\ lxd.subp_calls = 1
             /\ lxd.cmds = <<(<<"lxc", "delete", "test", "--force">>)>>

C21_Witness ==
    /\ lxd.op = "delete"
    /\ lxd.status = "returned"
    /\ lxd.ephemeral
    /\ lxd.shutdown_calls = 1
    /\ lxd.cmds = <<>>

C21_WitnessDeleted ==
    /\ lxd.op = "delete"
    /\ ~lxd.ephemeral
    /\ Len(lxd.cmds) = 1

----------------------------------------------------------------------------
(* Claims about get_or_create_vpc *)

\* the calls of the given name in the log of the operation that has just run
CallsNamed(log, name) == { i \in 1..Len(log) : log[i].name = name }

\* positions of the provider's VPCs that carry the name as their Name tag
VpcsNamed(name) == { i \in 1..Len(vpcs) : vpcs[i].name = name }

\* C22: a call of get_or_create_vpc(name, cidr) never both wraps an existing
\* VPC and creates one. When the provider holds a VPC tagged with the name,
\* nothing is created and what is returned is the first such VPC; when it holds
\* none, at most one creation is requested, a call that returns has requested
\* exactly one, with the given name and CIDR, and the provider then holds
\* exactly one VPC more, with that name and CIDR.
C22_FindsOrCreatesOnce ==
    [][(pc = "idle" /\ pc' = "done" /\ frame'.op = "get_or_create_vpc") =>
        LET name == frame'.id
            existing == VpcsNamed(name)
            creates == CallsNamed(calls', "VPC.create")
            wraps == CallsNamed(calls', "VPC.from_existing")
        IN  /\ creates = {} \/ wraps = {}
            /\ IF existing # {}
               THEN /\ creates = {}
                    /\ vpcs' = vpcs
                    /\ result'.status = "returned" =>
                          /\ result'.value = vpcs[CHOOSE i \in existing :
                                                    \A j \in existing : i <= j].VpcId
                          /\ Cardinality(wraps) = 1
               ELSE /\ wraps = {}
                    /\ Cardinality(creates) <= 1
                    /\ \A i \in creates :
                          calls'[i].args = [name |-> name,
                                            ipv4_cidr |-> frame'.args.ipv4_cidr]
                    /\ IF result'.status = "returned"
                       THEN /\ Cardinality(creates) = 1
                            /\ Len(vpcs') = Len(vpcs) + 1
                            /\ SubSeq(vpcs', 1, Len(vpcs)) = vpcs
                            /\ vpcs'[Len(vpcs')].name = name
                            /\ vpcs'[Len(vpcs')].cidr = frame'.args.ipv4_cidr
                            /\ vpcs'[Len(vpcs')].VpcId = result'.value
                       ELSE vpcs' = vpcs]_vars

C22_Witness ==
    /\ frame.op = "get_or_create_vpc"
    /\ pc = "done"
    /\ result.status = "returned"
    /\ CallsNamed(calls, "VPC.create") # {}
    /\ Cardinality(VpcsNamed(frame.id)) = 1
    /\ Len(vpcs) = 3

C22_WitnessFound ==
    /\ frame.op = "get_or_create_vpc"
    /\ pc = "done"
    /\ Cardinality(VpcsNamed(frame.id)) = 2
    /\ result.value = "vpc-id-1"
    /\ CallsNamed(calls, "VPC.create") = {}

====
